---------------------------- MODULE Spec2Model ----------------------------
(***************************************************************************)
(* Model of the OPTIM Finance knowledge-base code:                         *)
(*   - the admin API (admin/admin_api.py) and the vector-store adapter     *)
(*     (admin/chromadb_manager.py): upload, delete, clear, and a reader    *)
(*     (the chat API, a separate process on the same persistent store);    *)
(*   - the search engine (src/search.py): semantic, keyword and hybrid     *)
(*     search over a store content, on the ChromaDB and the FAISS path.    *)
(*   - the chunker (admin/file_processor.py): clean, split and chunk a     *)
(*     text, as one call and as the steps of the chunking loop;            *)
(*   - the chatbot (src/chatbot.py) and the persistent line-oriented       *)
(*     process around it (src/chatbot_persistent.py).                      *)
(* Scores are kept in tenths (0.7 is 7) so that all arithmetic is exact.   *)
(***************************************************************************)
EXTENDS Integers, Sequences, FiniteSets, TLC

VARIABLES
    collection,       \* chunks held by the persistent ChromaDB collection
    collection_live,  \* self.collection of the admin manager names an existing collection
    upload_folder,    \* filenames that exist in Config.ADMIN_UPLOAD_FOLDER
    pc,               \* position of the admin event loop: "idle" or inside upload_file
    cur,              \* locals of the upload_file call in progress
    calls,            \* number of upload_file calls that passed validation (uuid source)
    last,             \* outcome of the last completed admin handler
    seen,             \* what the last reader query observed
    uploaded_ok,      \* filenames for which an upload_file call has returned success
    kb,               \* store content seen by the search engine, in insertion order
    use_chromadb,     \* SearchEngine.use_chromadb
    faiss_index,      \* EmbeddingManager.index: "none" or "loaded"
    out,              \* the last search call and its result
    reply,            \* the last process_query call and the record it returned
    disk,             \* the storage directory Config.CHROMADB_PATH
    manager,          \* the ChromaDBManager under construction: client, collection
    ctor,             \* position and history of ChromaDBManager.__init__
    doc,              \* the arguments of a process_file call: text, chunk_size, overlap
    processed,        \* what that process_file call did
    loop,             \* the locals of _create_chunks inside its loop over the sentences
    query,            \* the argument of a classify_intent call
    intent,           \* what that classify_intent call returned
    bot,              \* OptimFinanceChatbot.is_initialized and its initialize() calls
    session           \* PersistentOptimFinanceChatbot.run: position, streams, lines, responses

storeVars == <<collection, collection_live, upload_folder, pc, cur, calls, last, seen,
               uploaded_ok>>
searchVars == <<kb, use_chromadb, faiss_index, out, reply>>
openVars == <<disk, manager, ctor>>
chunkVars == <<doc, processed, loop>>
intentVars == <<query, intent>>
botVars == <<bot, session>>
vars == <<collection, collection_live, upload_folder, pc, cur, calls, last, seen,
          uploaded_ok, kb, use_chromadb, faiss_index, out, reply, disk, manager, ctor,
          doc, processed, loop, query, intent, bot, session>>

(***************************************************************************)
(* Bounds of the model.                                                    *)
(***************************************************************************)
MaxUploads == 3
MaxChunks == 2

(***************************************************************************)
(* Part 1: admin API and vector-store adapter.                             *)
(***************************************************************************)
Filenames == {"a.txt", "b.md"}
UploadNames == Filenames \cup {"x.exe"}

Suffix(filename) ==
    CASE filename = "a.txt" -> ".txt"
      [] filename = "b.md" -> ".md"
      [] OTHER -> ".exe"

SUPPORTED_FILE_TYPES == {".pdf", ".docx", ".doc", ".txt", ".json", ".csv", ".md"}

is_supported_format(filename) == Suffix(filename) \in SUPPORTED_FILE_TYPES

\* The chunks one process_file call returns: uuid4 ids are unique per call and
\* index, modelled by the pair (gen, chunk_index).
ChunksOf(filename, gen, n) ==
    {[filename |-> filename, gen |-> gen, chunk_index |-> i] : i \in 0..(n - 1)}

ChunksOfFile(coll, filename) == {c \in coll : c.filename = filename}

GensOfFile(coll, filename) == {c.gen : c \in ChunksOfFile(coll, filename)}

\* A store call either completes or raises; a call on a handle whose collection
\* was deleted raises too.
StoreFaults == {"none", "raise"}

Returned(coll, ret) == [collection |-> coll, ret |-> ret, raised |-> FALSE]

\* Mutant: the not-found branch reports success.
delete_always_true(coll, live, filename, fault) ==
    LET ids == ChunksOfFile(coll, filename)
    IN IF ~live \/ fault # "none"
       THEN Returned(coll, FALSE)
       ELSE Returned(coll \ ids, TRUE)

\* Mutant: the delete removes the first matching chunk only.
delete_first_only(coll, live, filename, fault) ==
    LET ids == ChunksOfFile(coll, filename)
    IN IF ~live \/ fault # "none"
       THEN Returned(coll, FALSE)
       ELSE IF ids # {}
            THEN Returned(coll \ {c \in ids : c.chunk_index = 0}, TRUE)
            ELSE Returned(coll, FALSE)

\* ChromaDBManager.delete_chunks_by_filename: get the ids with this filename,
\* delete them; any exception is caught and reported as False.
delete_chunks_by_filename(coll, live, filename, fault) ==
    LET ids == ChunksOfFile(coll, filename)
    IN IF ~live \/ fault # "none"
       THEN Returned(coll, FALSE)
       ELSE IF ids # {}
            THEN Returned(coll \ ids, TRUE)
            ELSE Returned(coll, FALSE)

AddFaults == {"none", "encode", "add"}

\* Mutant: one collection.add per chunk, so a failing add leaves the chunks
\* written before it.
add_chunks_per_chunk(coll, live, chunks, fault) ==
    IF fault = "encode" \/ ~live
    THEN Returned(coll, FALSE)
    ELSE IF fault = "add"
         THEN Returned(coll \cup {c \in chunks : c.chunk_index = 0}, FALSE)
         ELSE Returned(coll \cup chunks, TRUE)

\* ChromaDBManager.add_chunks: the embeddings are computed batch by batch, then
\* ONE collection.add writes every chunk; any exception gives False.  For an
\* empty list the loop does nothing and collection.add is called with empty
\* lists, which ChromaDB rejects with a ValueError.
add_chunks(coll, live, chunks, fault) ==
    IF fault = "encode" \/ fault = "add" \/ ~live \/ chunks = {}
    THEN Returned(coll, FALSE)
    ELSE Returned(coll \cup chunks, TRUE)

\* Mutant: the uploaded file is removed after a successful upload only.
clean_up_on_success(folder, f, status) == IF status = "ok" THEN folder \ {f} ELSE folder

\* upload_file, lines 132, 139 and 143: os.remove(file_path) on the processing
\* error, the database error and the success path.
clean_up(folder, f, status) == folder \ {f}

NoUpload == [f |-> "", gen |-> 0, n |-> 0, old |-> {}, deleted |-> FALSE]
NoSeen == [fresh |-> FALSE, ids |-> {}]

\* What a completed handler left behind: status is upload_file's response
\* ("ok" or the kind of HTTP error), ret the boolean a manager method returned.
Outcome(op, f, status, ret, raised, gen, n, again, fault, before) ==
    [op |-> op, f |-> f, status |-> status, ret |-> ret, raised |-> raised,
     gen |-> gen, n |-> n, again |-> again, fault |-> fault, before |-> before]

UploadOutcome(f, status, gen, n, again, fault) ==
    Outcome("upload", f, status, status = "ok", FALSE, gen, n, again, fault, {})

NoOutcome == Outcome("none", "", "", FALSE, FALSE, 0, 0, FALSE, "none", {})

StoreInit ==
    /\ collection = {}
    /\ collection_live = TRUE
    /\ upload_folder = {}
    /\ pc = "idle"
    /\ cur = NoUpload
    /\ calls = 0
    /\ last = NoOutcome
    /\ seen = NoSeen
    /\ uploaded_ok = {}

\* upload_file, lines 99-121: size and format validation, then the removal of an
\* existing file of that name together with the chunks of that filename.
UploadBegin(f, too_large, fault) ==
    /\ pc = "idle"
    /\ calls < MaxUploads
    /\ seen' = NoSeen
    /\ IF too_large \/ ~is_supported_format(f)
       THEN /\ last' = UploadOutcome(f, IF too_large THEN "too_large" ELSE "bad_format",
                                     0, 0, f \in uploaded_ok, "none")
            /\ UNCHANGED <<collection, collection_live, upload_folder, pc, cur, calls,
                           uploaded_ok>>
       ELSE /\ calls' = calls + 1
            /\ pc' = "save"
            /\ IF f \in upload_folder
               THEN /\ upload_folder' = upload_folder \ {f}
                    /\ collection' =
                          delete_chunks_by_filename(collection, collection_live, f, fault).collection
               ELSE UNCHANGED <<upload_folder, collection>>
            /\ cur' = [f |-> f, gen |-> calls + 1, n |-> 0,
                       old |-> GensOfFile(collection, f),
                       deleted |-> f \in upload_folder]
            /\ UNCHANGED <<collection_live, last, uploaded_ok>>
    /\ UNCHANGED <<searchVars, openVars, chunkVars, intentVars, botVars>>

\* upload_file, lines 123-133: the upload is copied to the folder (a failing copy
\* goes to the outer handler and leaves what was written), then process_file
\* turns it into n chunks (none for a text without a sentence) or raises (the
\* file is removed).
UploadSave(copy_ok, process_ok, n) ==
    /\ pc = "save"
    /\ seen' = NoSeen
    /\ IF ~copy_ok
       THEN /\ upload_folder' = upload_folder \cup {cur.f}
            /\ last' = UploadOutcome(cur.f, "upload_failed", cur.gen, 0,
                                     cur.f \in uploaded_ok, "none")
            /\ pc' = "idle"
            /\ cur' = NoUpload
       ELSE IF ~process_ok
            THEN /\ upload_folder' = clean_up(upload_folder, cur.f, "process_error")
                 /\ last' = UploadOutcome(cur.f, "process_error", cur.gen, 0,
                                          cur.f \in uploaded_ok, "none")
                 /\ pc' = "idle"
                 /\ cur' = NoUpload
            ELSE /\ upload_folder' = upload_folder \cup {cur.f}
                 /\ cur' = [cur EXCEPT !.n = n]
                 /\ pc' = "add"
                 /\ UNCHANGED last
    /\ UNCHANGED <<collection, collection_live, calls, uploaded_ok>>
    /\ UNCHANGED <<searchVars, openVars, chunkVars, intentVars, botVars>>

\* upload_file, lines 135-151: add_chunks, then the file is removed on both
\* branches; success is reported with chunks_created = len(chunks).
UploadAdd(fault) ==
    /\ pc = "add"
    /\ seen' = NoSeen
    /\ LET r == add_chunks(collection, collection_live,
                           ChunksOf(cur.f, cur.gen, cur.n), fault)
       IN /\ collection' = r.collection
          /\ last' = UploadOutcome(cur.f, IF r.ret THEN "ok" ELSE "db_error",
                                   cur.gen, cur.n, cur.f \in uploaded_ok, fault)
          /\ uploaded_ok' = IF r.ret THEN uploaded_ok \cup {cur.f} ELSE uploaded_ok
          /\ upload_folder' = clean_up(upload_folder, cur.f,
                                       IF r.ret THEN "ok" ELSE "db_error")
    /\ pc' = "idle"
    /\ cur' = NoUpload
    /\ UNCHANGED <<collection_live, calls>>
    /\ UNCHANGED <<searchVars, openVars, chunkVars, intentVars, botVars>>

\* delete_file: the /delete-file handler, one call of delete_chunks_by_filename.
DeleteFile(f, fault) ==
    /\ pc = "idle"
    /\ seen' = NoSeen
    /\ LET r == delete_chunks_by_filename(collection, collection_live, f, fault)
       IN /\ collection' = r.collection
          /\ last' = Outcome("delete", f, "", r.ret, r.raised, 0, 0, FALSE,
                             IF collection_live THEN fault ELSE "raise", collection)
    /\ UNCHANGED <<collection_live, upload_folder, pc, cur, calls, uploaded_ok>>
    /\ UNCHANGED <<searchVars, openVars, chunkVars, intentVars, botVars>>

ClearFaults == {"none", "delete_collection", "get_or_create_collection"}

\* clear_collection: delete the collection, then create it again; either call may
\* raise, which is caught and reported as False.
ClearAll(fault) ==
    /\ pc = "idle"
    /\ seen' = NoSeen
    /\ IF ~collection_live \/ fault = "delete_collection"
       THEN /\ last' = Outcome("clear", "", "", FALSE, FALSE, 0, 0, FALSE, fault, {})
            /\ UNCHANGED <<collection, collection_live>>
       ELSE IF fault = "get_or_create_collection"
            THEN /\ collection' = {}
                 /\ collection_live' = FALSE
                 /\ last' = Outcome("clear", "", "", FALSE, FALSE, 0, 0, FALSE, fault, {})
            ELSE /\ collection' = {}
                 /\ UNCHANGED collection_live
                 /\ last' = Outcome("clear", "", "", TRUE, FALSE, 0, 0, FALSE, fault, {})
    /\ UNCHANGED <<upload_folder, pc, cur, calls, uploaded_ok>>
    /\ UNCHANGED <<searchVars, openVars, chunkVars, intentVars, botVars>>

Stats(total_chunks, filenames) ==
    [total_chunks |-> total_chunks, total_files |-> Cardinality(filenames),
     filenames |-> filenames]

\* ChromaDBManager.get_collection_stats: count the chunks and collect the
\* filenames of the metadata; any exception gives the empty statistics.
get_collection_stats(coll, live, fault) ==
    IF ~live \/ fault # "none"
    THEN Stats(0, {})
    ELSE Stats(Cardinality(coll), {c.filename : c \in coll})

\* A query of the chat API process (search_similar) against the shared store; it
\* runs at any point of an upload_file call of the admin process.
ReaderSearch ==
    /\ ~seen.fresh
    /\ seen' = [fresh |-> TRUE, ids |-> {<<c.filename, c.gen>> : c \in collection}]
    /\ UNCHANGED <<collection, collection_live, upload_folder, pc, cur, calls, last,
                   uploaded_ok>>
    /\ UNCHANGED <<searchVars, openVars, chunkVars, intentVars, botVars>>


(***************************************************************************)
(* Part 2: the search engine (src/search.py).  The state is the store       *)
(* content as one query sees it: every chunk carries the cosine similarity  *)
(* of its embedding to the query's (sim, in tenths), its keyword list and   *)
(* the words of its content.                                                *)
(***************************************************************************)
NumChunks == 2

SIMILARITY_THRESHOLD == 7
TOP_K_RESULTS == 3

\* query.lower().split() of the query "tarifs portage salarial".
QueryWords == {"tarifs", "portage", "salarial"}

Sims == {6, 7, 9}
Categories == {"pricing", "general"}
WordProfiles ==
    { [keywords |-> {"tarif"}, content |-> {"tarif", "contrat"}],
      [keywords |-> {}, content |-> {"portage", "contrat"}],
      [keywords |-> {"portage"}, content |-> {"portage"}] }

ChunkAttrs == [sim : Sims, words : WordProfiles, category : Categories]

MakeChunk(i, a) ==
    [id |-> i, sim |-> a.sim, keywords |-> a.words.keywords,
     content |-> a.words.content, category |-> a.category]

KnowledgeBases ==
    {<<>>} \cup UNION { { [i \in 1..n |-> MakeChunk(i, f[i])] : f \in [1..n -> ChunkAttrs] }
                        : n \in 1..NumChunks }

\* top_k arguments: 0 stands for None, every other value is at least 1.
None == 0
TopKArgs == {None, 1}
NoFilter == ""
Filters == {NoFilter} \cup Categories
\* semantic_weight, in tenths.
Weights == {1, 5, 7, 9}
SearchFaults == {"none", "encode", "query"}

Take(s, k) == SubSeq(s, 1, IF k < Len(s) THEN k ELSE Len(s))

\* list.sort(key, reverse=True): descending by key, equal keys keep their order.
StableSortDesc(s, keys) ==
    LET n == Len(s)
        rank(i) == 1 + Cardinality({j \in 1..n : \/ keys[j] > keys[i]
                                                 \/ (keys[j] = keys[i] /\ j < i)})
    IN [p \in 1..n |-> s[CHOOSE i \in 1..n : rank(i) = p]]

MaxOf(S, default) == IF S = {} THEN default ELSE CHOOSE m \in S : \A x \in S : x <= m

Ok(results) == [raised |-> FALSE, results |-> results]
Raised == [raised |-> TRUE, results |-> <<>>]

\* ChromaDBManager.search_similar: embed the query, query the collection with the
\* where clause, return the n_results nearest with similarity_score = 1 - distance;
\* any exception gives [].
search_similar(store, top_k, category_filter, fault) ==
    IF fault # "none"
    THEN <<>>
    ELSE LET cands == SelectSeq(store, LAMBDA c : \/ category_filter = NoFilter
                                                  \/ c.category = category_filter)
             distance(c) == 10 - c.sim
             ranked == Take(StableSortDesc(cands,
                                [i \in 1..Len(cands) |-> 0 - distance(cands[i])]), top_k)
         IN [i \in 1..Len(ranked) |->
                [id |-> ranked[i].id, content |-> ranked[i].content,
                 keywords |-> ranked[i].keywords, category |-> ranked[i].category,
                 similarity_score |-> 10 - distance(ranked[i]),
                 distance |-> distance(ranked[i])]]

\* Mutant: the threshold filter is left out.
search_chromadb_unfiltered(store, top_k, category_filter, fault) ==
    Ok(search_similar(store, top_k, category_filter, fault))

\* SearchEngine._search_chromadb
search_chromadb(store, top_k, category_filter, fault) ==
    Ok(SelectSeq(search_similar(store, top_k, category_filter, fault),
                 LAMBDA r : r.similarity_score >= SIMILARITY_THRESHOLD))

\* SearchEngine._search_faiss: no exception handler; the index returns the
\* top_k * 2 best inner products, then category and threshold are filtered.
search_faiss(store, index, top_k, category_filter, fault) ==
    IF index = "none"
    THEN Ok(<<>>)
    ELSE IF fault # "none"
         THEN Raised
         ELSE LET ranked == Take(StableSortDesc(store, [i \in 1..Len(store) |-> store[i].sim]),
                                 top_k * 2)
                  kept == SelectSeq(ranked, LAMBDA c :
                              /\ ~(category_filter # NoFilter /\ c.category # category_filter)
                              /\ ~(c.sim < SIMILARITY_THRESHOLD))
              IN Ok(Take([i \in 1..Len(kept) |->
                             ("similarity_score" :> kept[i].sim) @@ kept[i]], top_k))

(***************************************************************************)
(* Intent classification (SearchEngine.classify_intent).  A query is a      *)
(* sequence of characters.                                                  *)
(***************************************************************************)
\* str.lower() on the characters the queries of the model are made of.
Lower(c) ==
    CASE c = "P" -> "p"
      [] c = "C" -> "c"
      [] c = "T" -> "t"
      [] OTHER -> c

lower(text) == [i \in 1..Len(text) |-> Lower(text[i])]

\* keyword in query_lower
IsSubstring(keyword, text) ==
    \E i \in 0..(Len(text) - Len(keyword)) :
        \A k \in 1..Len(keyword) : text[i + k] = keyword[k]

\* self.intent_patterns, a dict: iteration is in insertion order.
intent_patterns ==
    <<
       [intent |-> "pricing",
        keywords |-> <<<<"p", "r", "i", "x">>,
                      <<"c", "o", "û", "t">>,
                      <<"t", "a", "r", "i", "f">>,
                      <<"c", "o", "m", "b", "i", "e", "n">>,
                      <<"f", "r", "a", "i", "s">>,
                      <<"f", "a", "c", "t", "u", "r", "a", "t", "i", "o", "n">>>>],
       [intent |-> "comparison",
        keywords |-> <<<<"d", "i", "f", "f", "é", "r", "e", "n", "c", "e">>,
                      <<"c", "o", "m", "p", "a", "r", "e", "r">>,
                      <<"m", "i", "e", "u", "x">>,
                      <<"c", "h", "o", "i", "s", "i", "r">>,
                      <<"a", "v", "a", "n", "t", "a", "g", "e">>,
                      <<"v", "s">>>>],
       [intent |-> "contact",
        keywords |-> <<<<"c", "o", "n", "t", "a", "c", "t">>,
                      <<"t", "é", "l", "é", "p", "h", "o", "n", "e">>,
                      <<"e", "m", "a", "i", "l">>,
                      <<"r", "e", "n", "d", "e", "z", "-", "v", "o", "u", "s">>,
                      <<"j", "o", "i", "n", "d", "r", "e">>>>],
       [intent |-> "definition",
        keywords |-> <<<<"q", "u", "'", "e", "s", "t", "-", "c", "e">>,
                      <<"d", "é", "f", "i", "n", "i", "t", "i", "o", "n">>,
                      <<"c", "'", "e", "s", "t", " ", "q", "u", "o", "i">>,
                      <<"s", "i", "g", "n", "i", "f", "i", "e">>>>],
       [intent |-> "process",
        keywords |-> <<<<"c", "o", "m", "m", "e", "n", "t">>,
                      <<"é", "t", "a", "p", "e", "s">>,
                      <<"p", "r", "o", "c", "é", "d", "u", "r", "e">>,
                      <<"d", "é", "m", "a", "r", "c", "h", "e">>>>],
       [intent |-> "requirements",
        keywords |-> <<<<"c", "o", "n", "d", "i", "t", "i", "o", "n", "s">>,
                      <<"c", "r", "i", "t", "è", "r", "e", "s">>,
                      <<"é", "l", "i", "g", "i", "b", "l", "e">>,
                      <<"r", "e", "q", "u", "i", "s">>>>]
    >>

Matches(patterns, i, text) ==
    \E k \in 1..Len(patterns[i].keywords) : IsSubstring(patterns[i].keywords[k], text)

\* Mutant: the query is matched as typed, without lower().
RECURSIVE classify_intent_as_typed(_, _, _)
classify_intent_as_typed(patterns, i, text) ==
    IF i > Len(patterns)
    THEN "general"
    ELSE IF Matches(patterns, i, text)
         THEN patterns[i].intent
         ELSE classify_intent_as_typed(patterns, i + 1, text)

\* SearchEngine.classify_intent, from the i-th entry of the table on.
RECURSIVE classify_intent(_, _, _)
classify_intent(patterns, i, text) ==
    IF i > Len(patterns)
    THEN "general"
    ELSE IF Matches(patterns, i, lower(text))
         THEN patterns[i].intent
         ELSE classify_intent(patterns, i + 1, text)

\* The query of Part 2, "Tarifs portage salarial": QueryWords is its
\* query.lower().split().
SearchQuery == <<"T", "a", "r", "i", "f", "s", " ", "p", "o", "r", "t", "a", "g", "e", " ", "s", "a", "l", "a", "r", "i", "a", "l">>

\* The engine a call runs on: use_chromadb, the store content, the FAISS index,
\* the intent table.
Engine ==
    [chroma |-> use_chromadb, store |-> kb, index |-> faiss_index,
     intent_patterns |-> intent_patterns]

\* EmbeddingManager.chunks
FaissChunks(e) == IF e.index = "loaded" THEN e.store ELSE <<>>

\* SearchEngine.search_semantic
search_semantic(e, top_k_arg, category_filter, fault) ==
    LET top_k == IF top_k_arg = None THEN TOP_K_RESULTS ELSE top_k_arg
    IN IF e.chroma
       THEN search_chromadb(e.store, top_k, category_filter, fault)
       ELSE search_faiss(FaissChunks(e), e.index, top_k, category_filter, fault)

\* str.lower() on the words the chunks of the model are made of.
LowerWord(w) == IF w = "Portage" THEN "portage" ELSE w

LowerWords(words) == {LowerWord(w) : w \in words}

KeywordScore(chunk) ==
    Cardinality(QueryWords \cap LowerWords(chunk.keywords)) * 2
        + Cardinality(QueryWords \cap LowerWords(chunk.content))

\* Mutant: the candidates that score 0 are kept.
search_by_keywords_keep_zero(e, top_k_arg, fault) ==
    LET top_k == IF top_k_arg = None THEN TOP_K_RESULTS ELSE top_k_arg
        chunks == IF e.chroma
                  THEN search_similar(e.store, top_k * 3, NoFilter, fault)
                  ELSE FaissChunks(e)
        results == [i \in 1..Len(chunks) |->
                       ("keyword_score" :> KeywordScore(chunks[i])) @@ chunks[i]]
    IN Ok(Take(StableSortDesc(results, [i \in 1..Len(results) |-> results[i].keyword_score]),
               top_k))

\* SearchEngine.search_by_keywords
search_by_keywords(e, top_k_arg, fault) ==
    LET top_k == IF top_k_arg = None THEN TOP_K_RESULTS ELSE top_k_arg
        chunks == IF e.chroma
                  THEN search_similar(e.store, top_k * 3, NoFilter, fault)
                  ELSE FaissChunks(e)
        hits == SelectSeq(chunks, LAMBDA c : KeywordScore(c) > 0)
        results == [i \in 1..Len(hits) |->
                       ("keyword_score" :> KeywordScore(hits[i])) @@ hits[i]]
    IN Ok(Take(StableSortDesc(results, [i \in 1..Len(results) |-> results[i].keyword_score]),
               top_k))

Ids(results) == {results[i].id : i \in 1..Len(results)}

ById(results, id) == results[CHOOSE i \in 1..Len(results) : results[i].id = id]

\* Mutant: a keyword result replaces the entry of its id instead of updating it.
merge_scores_overwrite(semantic_results, keyword_results) ==
    LET only_kw == SelectSeq(keyword_results, LAMBDA r : r.id \notin Ids(semantic_results))
    IN [i \in 1..Len(semantic_results) |->
           IF semantic_results[i].id \in Ids(keyword_results)
           THEN [chunk |-> ById(keyword_results, semantic_results[i].id),
                 semantic_score |-> 0,
                 keyword_score |->
                     ById(keyword_results, semantic_results[i].id).keyword_score]
           ELSE [chunk |-> semantic_results[i],
                 semantic_score |-> semantic_results[i].similarity_score,
                 keyword_score |-> 0]]
       \o [i \in 1..Len(only_kw) |->
              [chunk |-> only_kw[i], semantic_score |-> 0,
               keyword_score |-> only_kw[i].keyword_score]]

\* Mutant: every keyword result is added as a new entry, whether or not its id
\* is in the map already.
merge_scores_append(semantic_results, keyword_results) ==
    [i \in 1..Len(semantic_results) |->
        [chunk |-> semantic_results[i],
         semantic_score |-> semantic_results[i].similarity_score,
         keyword_score |-> 0]]
    \o [i \in 1..Len(keyword_results) |->
           [chunk |-> keyword_results[i], semantic_score |-> 0,
            keyword_score |-> keyword_results[i].keyword_score]]

\* hybrid_search, lines 157-179: combined_scores, a dict in insertion order: the
\* semantic results first, then the keyword results whose id is new.
merge_scores(semantic_results, keyword_results) ==
    LET only_kw == SelectSeq(keyword_results, LAMBDA r : r.id \notin Ids(semantic_results))
    IN [i \in 1..Len(semantic_results) |->
           [chunk |-> semantic_results[i],
            semantic_score |-> semantic_results[i].similarity_score,
            keyword_score |->
                IF semantic_results[i].id \in Ids(keyword_results)
                THEN ById(keyword_results, semantic_results[i].id).keyword_score
                ELSE 0]]
       \o [i \in 1..Len(only_kw) |->
              [chunk |-> only_kw[i], semantic_score |-> 0,
               keyword_score |-> only_kw[i].keyword_score]]

\* Mutant: the raw scores are weighted, without the division by the maximum of
\* the channel (similarity in tenths, weight in tenths: den 100).
rank_combined_raw(combined, top_k, semantic_weight) ==
    LET n == Len(combined)
        num(x) == semantic_weight * x.semantic_score
                      + (10 - semantic_weight) * x.keyword_score * 10
        final_results ==
            [i \in 1..n |->
                ("final_score" :> [num |-> num(combined[i]), den |-> 100])
                    @@ combined[i].chunk]
    IN Take(StableSortDesc(final_results, [i \in 1..n |-> final_results[i].final_score.num]),
            top_k)

\* hybrid_search, lines 181-198.  final_score is the fraction num / den with
\* den = 10 * ds * dk common to all entries, so the sort compares num.
rank_combined(combined, top_k, semantic_weight) ==
    LET n == Len(combined)
        max_semantic == MaxOf({combined[i].semantic_score : i \in 1..n}, 1)
        max_keyword == MaxOf({combined[i].keyword_score : i \in 1..n}, 1)
        ds == IF max_semantic > 0 THEN max_semantic ELSE 1
        dk == IF max_keyword > 0 THEN max_keyword ELSE 1
        ns(x) == IF max_semantic > 0 THEN x.semantic_score ELSE 0
        nk(x) == IF max_keyword > 0 THEN x.keyword_score ELSE 0
        num(x) == semantic_weight * ns(x) * dk + (10 - semantic_weight) * nk(x) * ds
        final_results ==
            [i \in 1..n |->
                ("final_score" :> [num |-> num(combined[i]), den |-> 10 * ds * dk])
                    @@ combined[i].chunk]
    IN Take(StableSortDesc(final_results, [i \in 1..n |-> final_results[i].final_score.num]),
            top_k)

\* Mutant: the two sub-searches are run with top_k.
hybrid_search_narrow(e, top_k_arg, semantic_weight, fault) ==
    LET top_k == IF top_k_arg = None THEN TOP_K_RESULTS ELSE top_k_arg
        semantic == search_semantic(e, top_k, NoFilter, fault)
        keyword == search_by_keywords(e, top_k, fault)
    IN IF semantic.raised
       THEN [raised |-> TRUE, results |-> <<>>,
             semantic_results |-> <<>>, keyword_results |-> <<>>]
       ELSE [raised |-> FALSE,
             results |-> rank_combined(merge_scores(semantic.results, keyword.results),
                                       top_k, semantic_weight),
             semantic_results |-> semantic.results,
             keyword_results |-> keyword.results]

\* SearchEngine.hybrid_search
hybrid_search(e, top_k_arg, semantic_weight, fault) ==
    LET top_k == IF top_k_arg = None THEN TOP_K_RESULTS ELSE top_k_arg
        semantic == search_semantic(e, top_k + 3, NoFilter, fault)
        keyword == search_by_keywords(e, top_k + 3, fault)
    IN IF semantic.raised
       THEN [raised |-> TRUE, results |-> <<>>,
             semantic_results |-> <<>>, keyword_results |-> <<>>]
       ELSE [raised |-> FALSE,
             results |-> rank_combined(merge_scores(semantic.results, keyword.results),
                                       top_k, semantic_weight),
             semantic_results |-> semantic.results,
             keyword_results |-> keyword.results]

DEFAULT_SEMANTIC_WEIGHT == 7

SearchTypes == {"semantic", "keyword", "hybrid"}

\* Mutant: the intent of the query is used as the category filter when the
\* caller gave none.
search_intent_gated(e, search_type, top_k_arg, category_filter, fault) ==
    LET label == classify_intent(e.intent_patterns, 1, SearchQuery)
        gate == IF category_filter = NoFilter /\ label # "general"
                THEN label
                ELSE category_filter
        r == IF search_type = "semantic"
             THEN search_semantic(e, top_k_arg, gate, fault)
             ELSE IF search_type = "keyword"
                  THEN search_by_keywords(e, top_k_arg, fault)
                  ELSE hybrid_search(e, top_k_arg, DEFAULT_SEMANTIC_WEIGHT, fault)
    IN [raised |-> r.raised, results |-> r.results, intent |-> label]

\* SearchEngine.search: the intent of the query is computed and attached to the
\* answer; the dispatch on search_type does the retrieval.
search(e, search_type, top_k_arg, category_filter, fault) ==
    LET label == classify_intent(e.intent_patterns, 1, SearchQuery)
        r == IF search_type = "semantic"
             THEN search_semantic(e, top_k_arg, category_filter, fault)
             ELSE IF search_type = "keyword"
                  THEN search_by_keywords(e, top_k_arg, fault)
                  ELSE hybrid_search(e, top_k_arg, DEFAULT_SEMANTIC_WEIGHT, fault)
    IN [raised |-> r.raised, results |-> r.results, intent |-> label]

Call(op, search_type, top_k, filter, weight, fault, label, r, semantic_results, keyword_results) ==
    [op |-> op, search_type |-> search_type, top_k |-> top_k, filter |-> filter,
     weight |-> weight, fault |-> fault, intent |-> label, raised |-> r.raised,
     results |-> r.results, semantic_results |-> semantic_results,
     keyword_results |-> keyword_results]

NoCall == Call("none", "", None, NoFilter, 0, "none", "", Ok(<<>>), <<>>, <<>>)

(***************************************************************************)
(* The chatbot (src/chatbot.py, src/llm_integration.py): one process_query  *)
(* call is a search, then a call of the LLM on what the search returned.    *)
(***************************************************************************)
\* What the Mistral API call does: an answer, a blank answer, an exception.
LlmOutcomes == {"answer", "blank", "error"}

\* LLMIntegration.generate_response: any exception is caught and reported with
\* success False and the apology text; a blank answer is replaced.
generate_response(retrieved_chunks, llm) ==
    IF llm = "error"
    THEN [success |-> FALSE, response |-> "sorry_error_contact_team", sources |-> <<>>]
    ELSE [success |-> TRUE,
          response |-> IF llm = "blank" THEN "sorry_no_answer_contact_team"
                       ELSE "llm_answer",
          sources |-> [i \in 1..Len(retrieved_chunks) |-> retrieved_chunks[i].id]]

\* r.get('final_score', r.get('similarity_score', r.get('keyword_score', 0))) as
\* a fraction: similarity scores are in tenths, keyword scores are counts.
ScoreOf(r) ==
    IF "final_score" \in DOMAIN r
    THEN r.final_score
    ELSE IF "similarity_score" \in DOMAIN r
         THEN [num |-> r.similarity_score, den |-> 10]
         ELSE IF "keyword_score" \in DOMAIN r
              THEN [num |-> r.keyword_score, den |-> 1]
              ELSE [num |-> 0, den |-> 1]

\* OptimFinanceChatbot._evaluate_confidence: the best score against 0.8 and 0.6.
evaluate_confidence(results) ==
    IF results = <<>>
    THEN "low"
    ELSE IF \E i \in 1..Len(results) :
                10 * ScoreOf(results[i]).num > 8 * ScoreOf(results[i]).den
         THEN "high"
         ELSE IF \E i \in 1..Len(results) :
                     10 * ScoreOf(results[i]).num > 6 * ScoreOf(results[i]).den
              THEN "medium"
              ELSE "low"

\* The record process_query returns, with what happened inside the call:
\* searched is "no" (no search made), "raised" or "returned", found the number
\* of results the search returned.
Reply(raised, response, confidence, label, sources, num_sources, llm_called, searched, found) ==
    [raised |-> raised, response |-> response, confidence |-> confidence,
     intent |-> label, sources |-> sources, num_sources |-> num_sources,
     llm_called |-> llm_called, searched |-> searched, found |-> found]

\* Mutant: no try / except around the search and the LLM call.
process_query_unguarded(e, is_initialized, search_type, top_k_arg, fault, llm) ==
    IF ~is_initialized
    THEN Reply(FALSE, "not_initialized", "error", "", <<>>, 0, FALSE, "no", 0)
    ELSE LET search_results == search(e, search_type, top_k_arg, NoFilter, fault)
             found == Len(search_results.results)
             llm_response == generate_response(search_results.results, llm)
         IN IF search_results.raised
            THEN Reply(TRUE, "", "", "", <<>>, 0, FALSE, "raised", 0)
            ELSE IF search_results.results = <<>>
                 THEN Reply(FALSE, "no_information_contact_team", "low",
                            search_results.intent, <<>>, 0, FALSE, "returned", 0)
                 ELSE IF ~llm_response.success
                      THEN Reply(FALSE, llm_response.response, "error",
                                 search_results.intent, <<>>, found, TRUE,
                                 "returned", found)
                      ELSE Reply(FALSE, llm_response.response,
                                 evaluate_confidence(search_results.results),
                                 search_results.intent, llm_response.sources, found,
                                 TRUE, "returned", found)

\* OptimFinanceChatbot.process_query: the record it returns; an exception of
\* the search is caught by the except branch.
process_query(e, is_initialized, search_type, top_k_arg, fault, llm) ==
    IF ~is_initialized
    THEN Reply(FALSE, "not_initialized", "error", "", <<>>, 0, FALSE, "no", 0)
    ELSE LET search_results == search(e, search_type, top_k_arg, NoFilter, fault)
             found == Len(search_results.results)
             llm_response == generate_response(search_results.results, llm)
         IN IF search_results.raised
            THEN Reply(FALSE, "sorry_error_contact_team", "error", "unknown", <<>>, 0,
                       FALSE, "raised", 0)
            ELSE IF search_results.results = <<>>
                 THEN Reply(FALSE, "no_information_contact_team", "low",
                            search_results.intent, <<>>, 0, FALSE, "returned", 0)
                 ELSE IF ~llm_response.success
                      THEN Reply(FALSE, llm_response.response, "error",
                                 search_results.intent, <<>>, found, TRUE,
                                 "returned", found)
                      ELSE Reply(FALSE, llm_response.response,
                                 evaluate_confidence(search_results.results),
                                 search_results.intent, llm_response.sources, found,
                                 TRUE, "returned", found)

Asked(is_initialized, search_type, fault, llm, r) ==
    [op |-> "process_query", is_initialized |-> is_initialized,
     search_type |-> search_type, fault |-> fault, llm |-> llm] @@ r

NoReply ==
    [op |-> "none", is_initialized |-> FALSE, search_type |-> "", fault |-> "none",
     llm |-> ""] @@ Reply(FALSE, "", "", "", <<>>, 0, FALSE, "no", 0)

\* A fault is a store query or a query embedding that fails: it can only happen
\* in a call that makes one.  Search is a function of the query, the store
\* content and the configuration, so every behaviour makes one call.
MakesStoreCall(op) ==
    \/ use_chromadb
    \/ faiss_index = "loaded" /\ op # "search_by_keywords"

(***************************************************************************)
(* Part 3: opening the store (ChromaDBManager.__init__).  The storage       *)
(* directory either holds a readable database or a corrupted one; every     *)
(* file-system or ChromaDB call of the constructor may raise.               *)
(***************************************************************************)
\* What the storage directory can hold when a manager is constructed.
StoredChunks == ChunksOf("a.txt", 1, MaxChunks) \cup ChunksOf("b.md", 2, 1)

Disk(exists, corrupt, chunks) == [exists |-> exists, corrupt |-> corrupt, chunks |-> chunks]
NoDisk == Disk(FALSE, FALSE, {})
FreshDisk == Disk(TRUE, FALSE, {})

NoManager == [client |-> FALSE, collection |-> FALSE]

Ctor(at, open_failed, recoveries, log, fault) ==
    [pc |-> at, open_failed |-> open_failed, recoveries |-> recoveries, log |-> log,
     fault |-> fault]
NoCtor == Ctor("none", FALSE, 0, <<>>, "none")

OpenFaults == {"none", "client", "collection"}
RecoverFaults == {"none", "rmtree", "makedirs", "client", "collection"}

Recovered(d, m, raised, log) == [disk |-> d, manager |-> m, raised |-> raised, log |-> log]

\* Mutant: the exception of a failed recovery is swallowed.
recover_database_swallow(d, m, fault) ==
    LET removed == IF d.exists THEN <<"rmtree">> ELSE <<>>
        stale == [client |-> FALSE, collection |-> FALSE]
    IN IF fault = "rmtree" /\ d.exists
       THEN Recovered(d, stale, FALSE, <<>>)
       ELSE IF fault = "makedirs"
            THEN Recovered(NoDisk, stale, FALSE, removed)
            ELSE IF fault = "client"
                 THEN Recovered(FreshDisk, stale, FALSE, removed \o <<"makedirs">>)
                 ELSE IF fault = "collection"
                      THEN Recovered(FreshDisk, [client |-> TRUE, collection |-> FALSE],
                                     FALSE, removed \o <<"makedirs", "client">>)
                      ELSE Recovered(FreshDisk, [client |-> TRUE, collection |-> TRUE],
                                     FALSE,
                                     removed \o <<"makedirs", "client", "collection">>)

\* ChromaDBManager._recover_database: drop the client, remove the directory if
\* it exists, make it again, open a client, initialize the collection; an
\* exception of any of these is raised again.  log lists the steps completed.
recover_database(d, m, fault) ==
    LET removed == IF d.exists THEN <<"rmtree">> ELSE <<>>
        stale == [client |-> FALSE, collection |-> FALSE]
    IN IF fault = "rmtree" /\ d.exists
       THEN Recovered(d, stale, TRUE, <<>>)
       ELSE IF fault = "makedirs"
            THEN Recovered(NoDisk, stale, TRUE, removed)
            ELSE IF fault = "client"
                 THEN Recovered(FreshDisk, stale, TRUE, removed \o <<"makedirs">>)
                 ELSE IF fault = "collection"
                      THEN Recovered(FreshDisk, [client |-> TRUE, collection |-> FALSE],
                                     TRUE, removed \o <<"makedirs", "client">>)
                      ELSE Recovered(FreshDisk, [client |-> TRUE, collection |-> TRUE],
                                     FALSE,
                                     removed \o <<"makedirs", "client", "collection">>)

\* __init__, lines 19-20: the shared embedding model is fetched before the try
\* block, so a failure here leaves the constructor at once.
LoadModel(ok) ==
    /\ ctor.pc = "model"
    /\ ctor' = Ctor(IF ok THEN "init" ELSE "raised", FALSE, 0, <<>>,
                    IF ok THEN "none" ELSE "model")
    /\ UNCHANGED <<disk, manager>>
    /\ UNCHANGED <<storeVars, searchVars, chunkVars, intentVars, botVars>>

\* __init__, lines 23-25: open the persistent client (which makes the directory
\* when it is missing) and get or create the collection.  A corrupted database
\* makes one of the two calls raise; a readable one may fail too.
OpenStore(fault) ==
    /\ ctor.pc = "init"
    /\ disk.corrupt => fault # "none"
    /\ IF fault = "none"
       THEN /\ disk' = [disk EXCEPT !.exists = TRUE]
            /\ manager' = [client |-> TRUE, collection |-> TRUE]
            /\ ctor' = Ctor("returned", FALSE, 0, <<>>, "none")
       ELSE /\ disk' = IF fault = "collection" THEN [disk EXCEPT !.exists = TRUE] ELSE disk
            /\ manager' = [client |-> fault = "collection", collection |-> FALSE]
            /\ ctor' = Ctor("recover", TRUE, 0, <<>>, fault)
    /\ UNCHANGED <<storeVars, searchVars, chunkVars, intentVars, botVars>>

\* __init__, lines 26-29: the except branch calls _recover_database once; what it
\* raises leaves the constructor.
Recover(fault) ==
    /\ ctor.pc = "recover"
    /\ fault = "rmtree" => disk.exists
    /\ LET r == recover_database(disk, manager, fault)
       IN /\ disk' = r.disk
          /\ manager' = r.manager
          /\ ctor' = Ctor(IF r.raised THEN "raised" ELSE "returned", TRUE,
                          ctor.recoveries + 1, r.log, fault)
    /\ UNCHANGED <<storeVars, searchVars, chunkVars, intentVars, botVars>>

NextOpen ==
    \/ \E ok \in BOOLEAN : LoadModel(ok)
    \/ \E fault \in OpenFaults : OpenStore(fault)
    \/ \E fault \in RecoverFaults : Recover(fault)

OpenParked ==
    /\ disk = NoDisk
    /\ manager = NoManager
    /\ ctor = NoCtor

(***************************************************************************)
(* Part 4: the chunker (admin/file_processor.py).  A text is a sequence of  *)
(* characters: letters, the blank and the sentence delimiter.               *)
(***************************************************************************)
MaxTextLen == 5

Letters == {"a", "b"}
Blank == " "
Delimiters == {"."}
Chars == Letters \cup {Blank} \cup Delimiters

Texts == UNION {[1..n -> Chars] : n \in 0..MaxTextLen}

\* chunk_size and overlap are form fields of upload_file: neither the handler
\* nor Config.validate_config constrains them.
ChunkSizes == {2, 3}
Overlaps == {0, 1, 2, 3}

\* The elements of s at the indexes of keep, in order.
Pick(s, keep) ==
    [k \in 1..Cardinality(keep) |->
        s[CHOOSE i \in keep : Cardinality({j \in keep : j < i}) = k - 1]]

\* str.strip()
Strip(s) ==
    LET solid == {i \in 1..Len(s) : s[i] # Blank}
    IN IF solid = {}
       THEN <<>>
       ELSE SubSeq(s, CHOOSE i \in solid : \A j \in solid : i <= j,
                      CHOOSE i \in solid : \A j \in solid : j <= i)

\* FileProcessor._clean_text: runs of whitespace become one blank, characters
\* outside the kept classes are removed (none in Chars), the ends are stripped.
clean_text(text) ==
    Strip(Pick(text, {i \in 1..Len(text) :
                        ~(text[i] = Blank /\ i > 1 /\ text[i - 1] = Blank)}))

\* re.split(r'[.!?]+', text): the pieces between runs of delimiters, the empty
\* pieces at the ends included.
RECURSIVE re_split(_, _, _, _)
re_split(text, i, piece, pieces) ==
    IF i > Len(text)
    THEN Append(pieces, piece)
    ELSE IF text[i] \in Delimiters
         THEN IF i > 1 /\ text[i - 1] \in Delimiters
              THEN re_split(text, i + 1, piece, pieces)
              ELSE re_split(text, i + 1, <<>>, Append(pieces, piece))
         ELSE re_split(text, i + 1, Append(piece, text[i]), pieces)

\* _create_chunks, lines 171-172
split_sentences(text) ==
    LET pieces == re_split(text, 1, <<>>, <<>>)
        stripped == [i \in 1..Len(pieces) |-> Strip(pieces[i])]
    IN SelectSeq(stripped, LAMBDA x : x # <<>>)

\* _create_chunk_dict: the stored content and the index (the id is a fresh
\* uuid; title and keywords are computed from the content).
create_chunk_dict(content, chunk_index) ==
    [content |-> content, chunk_index |-> chunk_index]

\* current_chunk[-overlap:] if len(current_chunk) > overlap else current_chunk;
\* in Python s[-0:] is the whole of s.
overlap_text(current_chunk, overlap) ==
    IF Len(current_chunk) > overlap /\ overlap > 0
    THEN SubSeq(current_chunk, Len(current_chunk) - overlap + 1, Len(current_chunk))
    ELSE current_chunk

\* _create_chunks, lines 178-201: the loop over the sentences and the last chunk.
RECURSIVE chunk_sentences(_, _, _, _, _, _, _)
chunk_sentences(sentences, i, chunks, current_chunk, chunk_index, chunk_size, overlap) ==
    IF i > Len(sentences)
    THEN IF Strip(current_chunk) # <<>>
         THEN Append(chunks, create_chunk_dict(Strip(current_chunk), chunk_index))
         ELSE chunks
    ELSE IF Len(current_chunk \o <<Blank>> \o sentences[i]) > chunk_size
               /\ current_chunk # <<>>
         THEN chunk_sentences(sentences, i + 1,
                  Append(chunks, create_chunk_dict(Strip(current_chunk), chunk_index)),
                  overlap_text(current_chunk, overlap) \o <<Blank>> \o sentences[i],
                  chunk_index + 1, chunk_size, overlap)
         ELSE chunk_sentences(sentences, i + 1, chunks,
                  IF current_chunk # <<>>
                  THEN current_chunk \o <<Blank>> \o sentences[i]
                  ELSE sentences[i],
                  chunk_index, chunk_size, overlap)

\* FileProcessor._create_chunks
create_chunks(text, chunk_size, overlap) ==
    chunk_sentences(split_sentences(text), 1, <<>>, <<>>, 0, chunk_size, overlap)

Processed(ran, raised, text, chunks) ==
    [ran |-> ran, raised |-> raised, text |-> text, chunks |-> chunks, called |-> TRUE]

\* FileProcessor.process_file on a text file: the text is extracted and cleaned;
\* an empty text raises ValueError, any other goes to the chunker.
process_file(raw, chunk_size, overlap) ==
    LET text_content == clean_text(raw)
    IN IF Strip(text_content) = <<>>
       THEN Processed(FALSE, TRUE, text_content, <<>>)
       ELSE Processed(TRUE, FALSE, text_content,
                      create_chunks(text_content, chunk_size, overlap))

Doc(raw, chunk_size, overlap) == [raw |-> raw, chunk_size |-> chunk_size, overlap |-> overlap]
NoDoc == Doc(<<>>, 0, 0)
NoProcessed == [ran |-> FALSE, raised |-> FALSE, text |-> <<>>, chunks |-> <<>>,
                called |-> FALSE]

\* The locals of _create_chunks: at is "loop" while sentences are left, "last"
\* before the last chunk is added, "done" after the return.
Loop(at, sentences, i, chunks, current_chunk, chunk_index) ==
    [at |-> at, sentences |-> sentences, i |-> i, chunks |-> chunks,
     current_chunk |-> current_chunk, chunk_index |-> chunk_index]

NoLoop == Loop("none", <<>>, 0, <<>>, <<>>, 0)

\* Mutant: the chunk is cut whenever the buffer with the sentence is longer than
\* chunk_size, an empty buffer included.
loop_body_empty_buffer(l, chunk_size, overlap) ==
    LET sentence == l.sentences[l.i]
        at == IF l.i = Len(l.sentences) THEN "last" ELSE "loop"
    IN IF Len(l.current_chunk \o <<Blank>> \o sentence) > chunk_size
       THEN Loop(at, l.sentences, l.i + 1,
                 Append(l.chunks, create_chunk_dict(Strip(l.current_chunk), l.chunk_index)),
                 overlap_text(l.current_chunk, overlap) \o <<Blank>> \o sentence,
                 l.chunk_index + 1)
       ELSE Loop(at, l.sentences, l.i + 1, l.chunks,
                 IF l.current_chunk # <<>>
                 THEN l.current_chunk \o <<Blank>> \o sentence
                 ELSE sentence,
                 l.chunk_index)

\* _create_chunks, lines 182-193: the body of the loop for the sentence at l.i.
loop_body(l, chunk_size, overlap) ==
    LET sentence == l.sentences[l.i]
        at == IF l.i = Len(l.sentences) THEN "last" ELSE "loop"
    IN IF Len(l.current_chunk \o <<Blank>> \o sentence) > chunk_size
             /\ l.current_chunk # <<>>
       THEN Loop(at, l.sentences, l.i + 1,
                 Append(l.chunks, create_chunk_dict(Strip(l.current_chunk), l.chunk_index)),
                 overlap_text(l.current_chunk, overlap) \o <<Blank>> \o sentence,
                 l.chunk_index + 1)
       ELSE Loop(at, l.sentences, l.i + 1, l.chunks,
                 IF l.current_chunk # <<>>
                 THEN l.current_chunk \o <<Blank>> \o sentence
                 ELSE sentence,
                 l.chunk_index)

\* _create_chunks, lines 196-201: the last chunk.
last_chunk(l) ==
    Loop("done", l.sentences, l.i,
         IF Strip(l.current_chunk) # <<>>
         THEN Append(l.chunks, create_chunk_dict(Strip(l.current_chunk), l.chunk_index))
         ELSE l.chunks,
         l.current_chunk, l.chunk_index)

\* _create_chunks, lines 171-176: the sentences and the empty locals.
enter_loop(text) ==
    LET sentences == split_sentences(text)
    IN Loop(IF sentences = <<>> THEN "last" ELSE "loop", sentences, 1, <<>>, <<>>, 0)

ChunkParked ==
    /\ doc = NoDoc
    /\ processed = NoProcessed
    /\ loop = NoLoop

\* upload_file, lines 127-130: process_file is called with the form's chunk_size
\* and overlap.
ProcessFile ==
    /\ ~processed.called
    /\ processed' = process_file(doc.raw, doc.chunk_size, doc.overlap)
    /\ UNCHANGED <<doc, loop>>
    /\ UNCHANGED <<storeVars, searchVars, openVars, intentVars, botVars>>

NextChunk == ProcessFile

\* One turn of the loop of _create_chunks.
LoopStep ==
    /\ loop.at = "loop"
    /\ loop' = loop_body(loop, doc.chunk_size, doc.overlap)
    /\ UNCHANGED <<doc, processed>>
    /\ UNCHANGED <<storeVars, searchVars, openVars, intentVars, botVars>>

\* The statements after the loop.
LoopEnd ==
    /\ loop.at = "last"
    /\ loop' = last_chunk(loop)
    /\ UNCHANGED <<doc, processed>>
    /\ UNCHANGED <<storeVars, searchVars, openVars, intentVars, botVars>>

NextLoop == LoopStep \/ LoopEnd

(***************************************************************************)
(* Part 5: classify_intent on its own, over the queries made of at most     *)
(* MaxFragments of the fragments below.                                     *)
(***************************************************************************)
MaxFragments == 2

Fragments ==
    {<<"P", "r", "i", "x">>,
     <<"t", "a">>,
     <<"r", "i", "f">>,
     <<"d", "e", "v", "s">>,
     <<"c", "o", "m", "m", "e", "n", "t">>,
     <<"C", "o", "n", "t", "a", "c", "t">>,
     <<" ">>,
     <<"r", "e", "q", "u", "i", "s">>,
     <<"s", "i", "g", "n", "i", "f", "i", "e">>,
     <<"x">>}

RECURSIVE Concat(_)
Concat(parts) == IF parts = <<>> THEN <<>> ELSE Head(parts) \o Concat(Tail(parts))

Queries == {Concat(parts) : parts \in UNION {[1..n -> Fragments] : n \in 0..MaxFragments}}

NotClassified == "?"

IntentParked ==
    /\ query = <<>>
    /\ intent = NotClassified

ClassifyIntent ==
    /\ intent = NotClassified
    /\ intent' = classify_intent(intent_patterns, 1, query)
    /\ UNCHANGED query
    /\ UNCHANGED <<storeVars, searchVars, openVars, chunkVars, botVars>>

NextIntent == ClassifyIntent

(***************************************************************************)
(* Part 6: the life cycle of the chatbot (src/chatbot.py): __init__,        *)
(* initialize and process_query.                                            *)
(***************************************************************************)
MaxInits == 2

\* self.is_initialized and what the initialize() calls made so far did.
Bot(is_initialized, inits) == [is_initialized |-> is_initialized, inits |-> inits]

\* OptimFinanceChatbot.__init__
NewBot == Bot(FALSE, <<>>)

\* search_engine.initialize() returns or raises (it loads the FAISS data when
\* use_chromadb is false); llm.test_connection() catches its exceptions and
\* returns True or False.
EngineOutcomes == {"ok", "raise"}
TestOutcomes == {"ok", "fail"}

InitCall(engine, test, raised) == [engine |-> engine, test |-> test, raised |-> raised]

\* Mutant: is_initialized is set without looking at the connection test.
initialize_untested(b, engine, test) ==
    IF engine = "raise"
    THEN Bot(b.is_initialized, Append(b.inits, InitCall("raise", "skipped", TRUE)))
    ELSE Bot(TRUE, Append(b.inits, InitCall("ok", test, FALSE)))

\* OptimFinanceChatbot.initialize: is_initialized is set after a test that
\* succeeded; every other path raises and leaves it as it was.
initialize(b, engine, test) ==
    IF engine = "raise"
    THEN Bot(b.is_initialized, Append(b.inits, InitCall("raise", "skipped", TRUE)))
    ELSE IF test = "ok"
         THEN Bot(TRUE, Append(b.inits, InitCall("ok", "ok", FALSE)))
         ELSE Bot(b.is_initialized, Append(b.inits, InitCall("ok", "fail", TRUE)))

(***************************************************************************)
(* Part 7: the persistent process (src/chatbot_persistent.py): run reads    *)
(* request lines from stdin and writes response lines to stdout.            *)
(***************************************************************************)
MaxLines == 2

RequestIds == {"r1", "r2"}

\* A line of stdin after strip(): blank, not JSON, JSON that is not an object,
\* or an object whose requestId and message are there or not.
Line(kind, requestId, message) == [kind |-> kind, requestId |-> requestId, message |-> message]

Lines ==
    {Line("blank", "", ""), Line("bad_json", "", ""), Line("not_object", "", "")}
        \cup {Line("request", id, m) : id \in RequestIds \cup {"missing"},
                                      m \in {"question", "blank", "missing", "not_string"}}

NoLine == Line("none", "", "")

Response(requestId, kind) == [requestId |-> requestId, kind |-> kind]

\* request.get('requestId', 'unknown')
request_id(line) == IF line.requestId = "missing" THEN "unknown" ELSE line.requestId

\* What self.chatbot.process_query does inside process_message: it returns an
\* answer record, returns a record with an 'error' key, or the call raises.
QueryOutcomes == {"answer", "error_record", "raise"}

\* at: "start", "exit" (sys.exit(1)), "read" (before readline), "process"
\* (before process_message), "inside" (in process_message, after the streams
\* were redirected), "write" (before the response is written), "ended".
Session(at, stdout, stderr, line, nonblank, response, written) ==
    [at |-> at, stdout |-> stdout, stderr |-> stderr, line |-> line,
     nonblank |-> nonblank, response |-> response, written |-> written]

NoResponse == Response("", "none")

NoSession == Session("none", "real", "real", NoLine, 0, NoResponse, <<>>)

\* PersistentOptimFinanceChatbot.__init__: the streams of the process are kept
\* as original_stdout and original_stderr.
NewSession == Session("start", "real", "real", NoLine, 0, NoResponse, <<>>)

\* run, lines 151-187, for a line that is not blank: the response that is ready
\* without a process_message call, or the call.
parse_line(s, line) ==
    LET next(at, response) ==
            Session(at, s.stdout, s.stderr, line, s.nonblank + 1, response, s.written)
    IN IF line.kind = "bad_json"
       THEN next("write", Response("unknown", "invalid_json"))
       ELSE IF line.kind = "not_object" \/ line.message = "not_string"
            THEN next("write", Response("unknown", "unexpected_error"))
            ELSE IF line.message \in {"blank", "missing"}
                 THEN next("write", Response(request_id(line), "empty_message"))
                 ELSE next("process", NoResponse)

\* process_message, lines 90-91: the streams are redirected.
process_message_enter(s) ==
    Session("inside", "null", "null", s.line, s.nonblank, s.response, s.written)

\* Mutant: the handler of the exception does not restore the streams.
process_message_exit_no_restore(s, outcome) ==
    Session("write",
            IF outcome = "raise" THEN s.stdout ELSE "real",
            IF outcome = "raise" THEN s.stderr ELSE "real",
            s.line, s.nonblank,
            Response(request_id(s.line), IF outcome = "answer" THEN "result" ELSE "error"),
            s.written)

\* process_message, lines 93-136, and run, lines 171-187: the streams are
\* restored after the call and in the handler of an exception; the result
\* becomes a response with the requestId of the request.
process_message_exit(s, outcome) ==
    Session("write", "real", "real", s.line, s.nonblank,
            Response(request_id(s.line), IF outcome = "answer" THEN "result" ELSE "error"),
            s.written)

\* run, lines 195-197: sys.stdout.write of the response line; a NullWriter
\* drops what is written to it.
write_response(s) ==
    Session("read", s.stdout, s.stderr, s.line, s.nonblank, NoResponse,
            IF s.stdout = "real" THEN Append(s.written, s.response) ELSE s.written)

BotParked ==
    /\ bot = NewBot
    /\ session = NoSession

InitSearch ==
    /\ StoreInit
    /\ OpenParked
    /\ ChunkParked
    /\ IntentParked
    /\ BotParked
    /\ kb \in KnowledgeBases
    /\ use_chromadb \in BOOLEAN
    /\ faiss_index \in {"none", "loaded"}
    /\ faiss_index = "loaded" <=> (~use_chromadb /\ kb # <<>>)
    /\ out = NoCall
    /\ reply = NoReply

SearchSemantic(top_k, filter, fault) ==
    /\ out.op = "none"
    /\ fault # "none" => MakesStoreCall("search_semantic")
    /\ out' = Call("search_semantic", "", top_k, filter, 0, fault, "",
                   search_semantic(Engine, top_k, filter, fault), <<>>, <<>>)
    /\ UNCHANGED <<kb, use_chromadb, faiss_index, reply>>
    /\ UNCHANGED <<storeVars, openVars, chunkVars, intentVars, botVars>>

SearchByKeywords(top_k, fault) ==
    /\ out.op = "none"
    /\ fault # "none" => MakesStoreCall("search_by_keywords")
    /\ out' = Call("search_by_keywords", "", top_k, NoFilter, 0, fault, "",
                   search_by_keywords(Engine, top_k, fault), <<>>, <<>>)
    /\ UNCHANGED <<kb, use_chromadb, faiss_index, reply>>
    /\ UNCHANGED <<storeVars, openVars, chunkVars, intentVars, botVars>>

HybridSearch(top_k, weight, fault) ==
    /\ out.op = "none"
    /\ fault # "none" => MakesStoreCall("hybrid_search")
    /\ LET h == hybrid_search(Engine, top_k, weight, fault)
       IN out' = Call("hybrid_search", "", top_k, NoFilter, weight, fault, "",
                      h, h.semantic_results, h.keyword_results)
    /\ UNCHANGED <<kb, use_chromadb, faiss_index, reply>>
    /\ UNCHANGED <<storeVars, openVars, chunkVars, intentVars, botVars>>

Search(search_type, top_k, filter) ==
    /\ out.op = "none"
    /\ LET r == search(Engine, search_type, top_k, filter, "none")
       IN out' = Call("search", search_type, top_k, filter, 0, "none", r.intent, r,
                      <<>>, <<>>)
    /\ UNCHANGED <<kb, use_chromadb, faiss_index, reply>>
    /\ UNCHANGED <<storeVars, openVars, chunkVars, intentVars, botVars>>

\* One process_query call of the chat API, with the default top_k.
ProcessQuery(is_initialized, search_type, fault, llm) ==
    /\ reply.op = "none"
    /\ fault # "none" =>
          MakesStoreCall(IF search_type = "keyword" THEN "search_by_keywords" ELSE "search")
    /\ reply' = Asked(is_initialized, search_type, fault, llm,
                      process_query(Engine, is_initialized, search_type, None, fault, llm))
    /\ UNCHANGED <<kb, use_chromadb, faiss_index, out>>
    /\ UNCHANGED <<storeVars, openVars, chunkVars, intentVars, botVars>>

NextSearch ==
    \/ \E top_k \in TopKArgs, filter \in Filters, fault \in SearchFaults :
          SearchSemantic(top_k, filter, fault)
    \/ \E top_k \in TopKArgs, fault \in SearchFaults : SearchByKeywords(top_k, fault)
    \/ \E top_k \in TopKArgs, weight \in Weights, fault \in SearchFaults :
          HybridSearch(top_k, weight, fault)

SpecSearch == InitSearch /\ [][NextSearch]_vars

\* The search engine's dispatcher on a store content: one search call.
InitRetrieve == InitSearch

NextRetrieve ==
    \E search_type \in SearchTypes, top_k \in TopKArgs, filter \in Filters :
       Search(search_type, top_k, filter)

SpecRetrieve == InitRetrieve /\ [][NextRetrieve]_vars

(***************************************************************************)
(* The ranking of keyword and hybrid search, on store contents that hold a  *)
(* chunk sharing no word with the query, a chunk whose words are            *)
(* capitalised, and stores longer than the lists the sub-searches return.   *)
(***************************************************************************)
Unrelated == [keywords |-> {}, content |-> {"contrat"}]
Capitalised == [keywords |-> {"Portage"}, content |-> {"Portage", "contrat"}]

RankProfiles == WordProfiles \cup {Unrelated, Capitalised}

\* The chunk with keyword "tarif" is of category pricing.
RankChunk(i, sim, words) ==
    [id |-> i, sim |-> sim, keywords |-> words.keywords, content |-> words.content,
     category |-> IF "tarif" \in words.keywords THEN "pricing" ELSE "general"]

RankAttrs == Sims \X RankProfiles

ShortBases ==
    {<<>>} \cup UNION { { [i \in 1..n |-> RankChunk(i, f[i][1], f[i][2])] :
                            f \in [1..n -> RankAttrs] } : n \in 1..NumChunks }

\* One chunk more than a sub-search of hybrid_search returns, for top_k = 1 and
\* for the default top_k.
LongLens == {1 + 3 + 1, TOP_K_RESULTS + 3 + 1}

LongProfiles == {Unrelated, [keywords |-> {"portage"}, content |-> {"portage"}]}

LongBases ==
    UNION { { [i \in 1..n |-> RankChunk(i, 9, f[i])] : f \in [1..n -> LongProfiles] }
            : n \in LongLens }

RankBases == ShortBases \cup LongBases

\* semantic_weight in [0, 1], in tenths.
RankWeights == Weights \cup {0, 10}

InitRank ==
    /\ StoreInit
    /\ OpenParked
    /\ ChunkParked
    /\ IntentParked
    /\ BotParked
    /\ kb \in RankBases
    /\ use_chromadb \in BOOLEAN
    /\ faiss_index \in {"none", "loaded"}
    /\ faiss_index = "loaded" <=> (~use_chromadb /\ kb # <<>>)
    /\ out = NoCall
    /\ reply = NoReply

NextRank ==
    \/ \E top_k \in TopKArgs : SearchByKeywords(top_k, "none")
    \/ \E top_k \in TopKArgs, weight \in RankWeights : HybridSearch(top_k, weight, "none")

SpecRank == InitRank /\ [][NextRank]_vars

\* The chatbot on a store content: one process_query call.
InitChat == InitSearch

NextChat ==
    \E is_initialized \in BOOLEAN, search_type \in SearchTypes, fault \in SearchFaults,
       llm \in LlmOutcomes : ProcessQuery(is_initialized, search_type, fault, llm)

SpecChat == InitChat /\ [][NextChat]_vars

SearchParked ==
    /\ kb = <<>>
    /\ use_chromadb = TRUE
    /\ faiss_index = "none"
    /\ out = NoCall
    /\ reply = NoReply

\* The chatbot on a store of at most one chunk: initialize calls and one
\* process_query call, in any order.
BotBases == {b \in KnowledgeBases : Len(b) <= 1}

Initialize(engine, test) ==
    /\ Len(bot.inits) < MaxInits
    /\ engine = "raise" => ~use_chromadb
    /\ bot' = initialize(bot, engine, test)
    /\ UNCHANGED session
    /\ UNCHANGED <<storeVars, searchVars, openVars, chunkVars, intentVars>>

Ask(search_type, fault, llm) == ProcessQuery(bot.is_initialized, search_type, fault, llm)

InitBot ==
    /\ StoreInit
    /\ OpenParked
    /\ ChunkParked
    /\ IntentParked
    /\ kb \in BotBases
    /\ use_chromadb \in BOOLEAN
    /\ faiss_index \in {"none", "loaded"}
    /\ faiss_index = "loaded" <=> (~use_chromadb /\ kb # <<>>)
    /\ out = NoCall
    /\ reply = NoReply
    /\ bot = NewBot
    /\ session = NoSession

NextBot ==
    \/ \E engine \in EngineOutcomes, test \in TestOutcomes : Initialize(engine, test)
    \/ \E search_type \in SearchTypes, fault \in SearchFaults, llm \in LlmOutcomes :
          Ask(search_type, fault, llm)

SpecBot == InitBot /\ [][NextBot]_vars

\* run, lines 144-147: initialize() once; the process exits when it fails.
RunStart(engine, test) ==
    /\ session.at = "start"
    /\ bot' = initialize(bot, engine, test)
    /\ session' = [session EXCEPT !.at = IF bot'.is_initialized THEN "read" ELSE "exit"]
    /\ UNCHANGED <<storeVars, searchVars, openVars, chunkVars, intentVars>>

\* run, lines 153-159: readline; EOF ends the loop, a blank line is skipped.
ReadLine(line) ==
    /\ session.at = "read"
    /\ session.nonblank < MaxLines
    /\ session' = IF line.kind = "blank"
                  THEN [session EXCEPT !.line = line]
                  ELSE parse_line(session, line)
    /\ UNCHANGED bot
    /\ UNCHANGED <<storeVars, searchVars, openVars, chunkVars, intentVars>>

ReadEof ==
    /\ session.at = "read"
    /\ session' = [session EXCEPT !.at = "ended"]
    /\ UNCHANGED bot
    /\ UNCHANGED <<storeVars, searchVars, openVars, chunkVars, intentVars>>

ProcessEnter ==
    /\ session.at = "process"
    /\ session' = process_message_enter(session)
    /\ UNCHANGED bot
    /\ UNCHANGED <<storeVars, searchVars, openVars, chunkVars, intentVars>>

ProcessExit(outcome) ==
    /\ session.at = "inside"
    /\ session' = process_message_exit(session, outcome)
    /\ UNCHANGED bot
    /\ UNCHANGED <<storeVars, searchVars, openVars, chunkVars, intentVars>>

WriteResponse ==
    /\ session.at = "write"
    /\ session' = write_response(session)
    /\ UNCHANGED bot
    /\ UNCHANGED <<storeVars, searchVars, openVars, chunkVars, intentVars>>

InitSession ==
    /\ StoreInit
    /\ SearchParked
    /\ OpenParked
    /\ ChunkParked
    /\ IntentParked
    /\ bot = NewBot
    /\ session = NewSession

NextSession ==
    \/ \E engine \in EngineOutcomes, test \in TestOutcomes : RunStart(engine, test)
    \/ \E line \in Lines : ReadLine(line)
    \/ ReadEof
    \/ ProcessEnter
    \/ \E outcome \in QueryOutcomes : ProcessExit(outcome)
    \/ WriteResponse

SpecSession == InitSession /\ [][NextSession]_vars

NextStore ==
    \/ \E f \in UploadNames, too_large \in BOOLEAN, fault \in StoreFaults :
          UploadBegin(f, too_large, fault)
    \/ \E copy_ok \in BOOLEAN, process_ok \in BOOLEAN, n \in 0..MaxChunks :
          UploadSave(copy_ok, process_ok, n)
    \/ \E fault \in AddFaults : UploadAdd(fault)
    \/ \E f \in Filenames, fault \in StoreFaults : DeleteFile(f, fault)
    \/ \E fault \in ClearFaults : ClearAll(fault)
    \/ ReaderSearch

InitStore ==
    StoreInit /\ SearchParked /\ OpenParked /\ ChunkParked /\ IntentParked /\ BotParked

SpecStore == InitStore /\ [][NextStore]_vars

\* A manager is constructed on a storage directory that is missing, readable or
\* corrupted.
InitOpen ==
    /\ StoreInit
    /\ SearchParked
    /\ ChunkParked
    /\ IntentParked
    /\ BotParked
    /\ disk \in {NoDisk} \cup {Disk(TRUE, corrupt, chunks) :
                                  corrupt \in BOOLEAN, chunks \in SUBSET StoredChunks}
    /\ manager = NoManager
    /\ ctor = Ctor("model", FALSE, 0, <<>>, "none")

SpecOpen == InitOpen /\ [][NextOpen]_vars

\* One upload: the content of the file and the form's chunk_size and overlap.
InitChunk ==
    /\ StoreInit
    /\ SearchParked
    /\ OpenParked
    /\ IntentParked
    /\ BotParked
    /\ doc \in {Doc(raw, chunk_size, overlap) :
                    raw \in Texts, chunk_size \in ChunkSizes, overlap \in Overlaps}
    /\ processed = NoProcessed
    /\ loop = NoLoop

SpecChunk == InitChunk /\ [][NextChunk]_vars

\* _create_chunks entered with a cleaned, non-blank text and the form's
\* chunk_size and overlap.
InitLoop ==
    /\ StoreInit
    /\ SearchParked
    /\ OpenParked
    /\ IntentParked
    /\ BotParked
    /\ doc \in {Doc(raw, chunk_size, overlap) :
                    raw \in {t \in Texts : clean_text(t) = t /\ t # <<>>},
                    chunk_size \in ChunkSizes, overlap \in Overlaps}
    /\ processed = NoProcessed
    /\ loop = enter_loop(doc.raw)

SpecLoop == InitLoop /\ [][NextLoop]_vars

InitIntent ==
    /\ StoreInit
    /\ SearchParked
    /\ OpenParked
    /\ ChunkParked
    /\ BotParked
    /\ query \in Queries
    /\ intent = NotClassified

SpecIntent == InitIntent /\ [][NextIntent]_vars

(***************************************************************************)
(* Claims about the admin API and the store adapter (under SpecStore).     *)
(***************************************************************************)
\* The admin event loop is between handlers: last describes the handler that has
\* just returned, and nothing has touched the store since.
JustReturned(op) == pc = "idle" /\ last.op = op

\* C1: after upload_file has succeeded for a filename and then succeeds again for
\* the same filename, the store holds exactly the chunks of the second upload
\* for that filename (chunks_created of them), none of the first.
C1_IdempotentReingestion ==
    (JustReturned("upload") /\ last.status = "ok" /\ last.again) =>
        ChunksOfFile(collection, last.f) = ChunksOf(last.f, last.gen, last.n)

OthersUnchanged ==
    {c \in collection : c.filename # last.f} = {c \in last.before : c.filename # last.f}

C4_ReplacementAtomicToReaders ==
    (seen.fresh /\ pc \in {"save", "add"} /\ cur.old # {}) =>
        \E x \in seen.ids : x[1] = cur.f /\ (x[2] \in cur.old \/ x[2] = cur.gen)

\* C12: after clear_collection returns true, get_collection_stats reports
\* total_chunks = 0 and total_files = 0 and the manager's collection accepts an
\* add_chunks; after it returns false, the manager's collection is still one
\* that add_chunks and the statistics operate on.
C12_ClearCollection ==
    JustReturned("clear") =>
        LET stats == get_collection_stats(collection, collection_live, "none")
            added == add_chunks(collection, collection_live,
                                ChunksOf("a.txt", calls + 1, 1), "none")
        IN /\ last.ret => (stats.total_chunks = 0 /\ stats.total_files = 0)
           /\ added.ret
           /\ added.collection = collection \cup ChunksOf("a.txt", calls + 1, 1)

\* C17: in every reachable store state no two stored chunks of one filename
\* have the same chunk_index, and the chunks one ingestion stored carry the
\* indexes 0, 1, 2, ... without a gap.
C17_ChunkIndexUnique ==
    /\ \A c1 \in collection, c2 \in collection :
          (c1.filename = c2.filename /\ c1.chunk_index = c2.chunk_index) => c1 = c2
    /\ \A c \in collection :
          \A i \in 0..c.chunk_index :
              [filename |-> c.filename, gen |-> c.gen, chunk_index |-> i] \in collection

CompletedUploads == {"ok", "process_error", "db_error"}

\* C28: when an upload_file request that saved the file completes (success,
\* processing error, database error), the file is not in the upload folder; a
\* file enters the folder only in the save step of an upload of that filename;
\* and an upload deletes the chunks of its filename exactly when the file is in
\* the folder at its start.  So the upload that follows a completed upload of
\* the same filename does not take the deleting branch.
C28_UploadedFileRemoved ==
    [][ /\ (pc # "idle" /\ pc' = "idle" /\ last'.status \in CompletedUploads) =>
              cur.f \notin upload_folder'
        /\ \A f \in UploadNames :
              (f \notin upload_folder /\ f \in upload_folder') => (pc = "save" /\ cur.f = f)
        /\ (pc = "idle" /\ pc' = "save") =>
              (cur'.deleted <=> cur'.f \in upload_folder) ]_vars

\* The second upload of a filename whose first upload succeeded is past its
\* start, and the deleting branch was not taken.
C28_Witness ==
    /\ pc = "save"
    /\ cur.f \in uploaded_ok
    /\ last.op = "upload" /\ last.f = cur.f /\ last.status = "ok"
    /\ ~cur.deleted
    /\ ChunksOfFile(collection, cur.f) # {}

\* C10: delete_chunks_by_filename returns true exactly when it removed at least
\* one chunk, false when no chunk has the filename, never raises, and leaves the
\* store as it was when it returns false.
C10_DeleteReturnValue ==
    JustReturned("delete") =>
        /\ ~last.raised
        /\ last.ret <=> (last.before \ collection # {})
        /\ ChunksOfFile(last.before, last.f) = {} => ~last.ret
        /\ ~last.ret => collection = last.before

C10_Witness ==
    /\ JustReturned("delete")
    /\ ~last.ret
    /\ last.fault = "none"
    /\ collection # {}

(***************************************************************************)
(* Claims about the search engine (under SpecSearch).                      *)
(***************************************************************************)
Completed(op) == out.op = op /\ ~out.raised

\* C5: every chunk search_semantic returns, on the ChromaDB path and on the FAISS
\* path, has a similarity_score of at least SIMILARITY_THRESHOLD.
C5_ThresholdExclusion ==
    Completed("search_semantic") =>
        \A i \in 1..Len(out.results) :
            out.results[i].similarity_score >= SIMILARITY_THRESHOLD

C5_Witness ==
    /\ Completed("search_semantic")
    /\ out.top_k = None
    /\ out.filter = NoFilter
    /\ Len(out.results) >= 1
    /\ \E i \in 1..Len(kb) : kb[i].sim < SIMILARITY_THRESHOLD

\* C6: no chunk whose similarity to the query is below SIMILARITY_THRESHOLD is in
\* the list hybrid_search returns, through the semantic or the keyword channel.
C6_NoSubThresholdChunkInHybrid ==
    Completed("hybrid_search") =>
        \A i \in 1..Len(out.results) :
            kb[out.results[i].id].sim >= SIMILARITY_THRESHOLD

StrictlyHighestSimilarity(results, id) ==
    /\ id \in Ids(results)
    /\ \A i \in 1..Len(results) :
          results[i].id # id =>
              results[i].similarity_score < ById(results, id).similarity_score

StrictlyHighestKeywordScore(results, id) ==
    /\ id \in Ids(results)
    /\ \A i \in 1..Len(results) :
          results[i].id # id =>
              results[i].keyword_score < ById(results, id).keyword_score

TopInBothChannels(id) ==
    /\ StrictlyHighestSimilarity(out.semantic_results, id)
    /\ StrictlyHighestKeywordScore(out.keyword_results, id)

\* C7: a chunk with the strictly highest similarity_score among the semantic
\* results and the strictly highest keyword_score among the keyword results is
\* the first element of hybrid_search's result, for every semantic_weight
\* strictly between 0 and 1 (top_k is None or at least 1).
C7_HybridMonotonicity ==
    Completed("hybrid_search") =>
        \A id \in 1..Len(kb) :
            TopInBothChannels(id) =>
                Len(out.results) >= 1 /\ out.results[1].id = id

C7_Witness ==
    /\ Completed("hybrid_search")
    /\ Len(out.semantic_results) >= 2
    /\ \E id \in 2..Len(kb) : TopInBothChannels(id) /\ out.results[1].id = id

\* C9: when the store query or the query embedding fails, search_semantic,
\* search_by_keywords and hybrid_search return an empty list and do not raise.
C9_SearchErrorsDegradeToEmpty ==
    (out.op \in {"search_semantic", "search_by_keywords", "hybrid_search"}
        /\ out.fault # "none") =>
        ~out.raised /\ Len(out.results) = 0

(***************************************************************************)
(* Claims about the dispatcher search (under SpecRetrieve).                *)
(***************************************************************************)

\* C8: search with a category_filter returns only chunks of that category, for
\* every search_type.
C8_CategoryFilterRespected ==
    (Completed("search") /\ out.filter # NoFilter) =>
        \A i \in 1..Len(out.results) : out.results[i].category = out.filter

\* The intent tables of the second run: no entry, and one entry that gives the
\* query another label.
OtherIntentTables ==
    {<<>>, <<[intent |-> "general", keywords |-> <<<<"t", "a", "r", "i", "f">>>>]>>}

\* C20: for a fixed store content, search_type, top_k and category filter, the
\* results search returns are the same under every intent table.
C20_IntentDoesNotGateRetrieval ==
    Completed("search") =>
        \A table \in OtherIntentTables :
            LET other == search([Engine EXCEPT !.intent_patterns = table],
                                out.search_type, out.top_k, out.filter, "none")
            IN other.results = out.results /\ other.raised = out.raised

C20_Witness ==
    /\ Completed("search")
    /\ out.intent = "pricing"
    /\ out.filter = NoFilter
    /\ \E i \in 1..Len(out.results) : out.results[i].category # "pricing"
    /\ \A table \in OtherIntentTables :
          search([Engine EXCEPT !.intent_patterns = table],
                 out.search_type, out.top_k, out.filter, "none").intent = "general"

(***************************************************************************)
(* Claims about the ranking of keyword and hybrid search (under SpecRank). *)
(***************************************************************************)
PositionOf(results, id) == CHOOSE i \in 1..Len(results) : results[i].id = id

\* The stem of a query word: "tarif" for "tarifs".
Stem(w) == IF w = "tarifs" THEN "tarif" ELSE w

\* A chunk matches a query term when one of its keywords or content words is a
\* query word or the stem of one, as the keyword "tarif" for the query word
\* "tarifs".
MatchesQueryTerm(chunk) ==
    \E w \in LowerWords(chunk.keywords \cup chunk.content) :
        \E q \in QueryWords : w = q \/ w = Stem(q)

\* C21: in hybrid_search with semantic_weight 0.5, of two chunks with equal
\* similarity, the one that matches a query term is ranked at least as high as
\* the one that matches none: when the latter is returned, the former is
\* returned before it.
C21_KeywordMatchRanksAtLeastAsHigh ==
    (Completed("hybrid_search") /\ out.weight = 5) =>
        \A a \in 1..Len(kb), b \in 1..Len(kb) :
            (/\ kb[a].sim = kb[b].sim
             /\ MatchesQueryTerm(kb[a])
             /\ ~MatchesQueryTerm(kb[b])
             /\ b \in Ids(out.results)) =>
                /\ a \in Ids(out.results)
                /\ PositionOf(out.results, a) < PositionOf(out.results, b)

\* The merged map of the hybrid_search call that completed.
Merged == merge_scores(out.semantic_results, out.keyword_results)

EntriesOf(combined, id) == {i \in 1..Len(combined) : combined[i].chunk.id = id}

EntryOf(combined, id) == combined[CHOOSE i \in 1..Len(combined) : combined[i].chunk.id = id]

\* C23: every id of the semantic or the keyword results is in the merged map
\* exactly once; an id of one channel only has score 0 in the other channel, an
\* id of both keeps its similarity_score and its keyword_score; the returned
\* list holds no id twice.
C23_MergeByChunkId ==
    Completed("hybrid_search") =>
        LET merged == Merged
            semantic_ids == Ids(out.semantic_results)
            keyword_ids == Ids(out.keyword_results)
        IN /\ \A i \in 1..Len(merged) : merged[i].chunk.id \in semantic_ids \cup keyword_ids
           /\ \A id \in semantic_ids \cup keyword_ids :
                 /\ Cardinality(EntriesOf(merged, id)) = 1
                 /\ EntryOf(merged, id).semantic_score =
                       IF id \in semantic_ids
                       THEN ById(out.semantic_results, id).similarity_score
                       ELSE 0
                 /\ EntryOf(merged, id).keyword_score =
                       IF id \in keyword_ids
                       THEN ById(out.keyword_results, id).keyword_score
                       ELSE 0
           /\ \A i \in 1..Len(out.results), j \in 1..Len(out.results) :
                 out.results[i].id = out.results[j].id => i = j

C23_Witness ==
    /\ Completed("hybrid_search")
    /\ Ids(out.semantic_results) \ Ids(out.keyword_results) # {}
    /\ Ids(out.keyword_results) \ Ids(out.semantic_results) # {}
    /\ Ids(out.keyword_results) \cap Ids(out.semantic_results) # {}
    /\ Len(out.results) >= 1

\* The greatest score of a channel over the merged set, 0 for an empty set.
MaxScore(combined, channel) == MaxOf({combined[i][channel] : i \in 1..Len(combined)}, 0)

\* a / b = c / d, and a / b <= c / d, for positive b and d.
FracEq(x, y) == x.num * y.den = y.num * x.den
FracLeq(x, y) == x.num * y.den <= y.num * x.den

\* semantic_weight * norm_semantic + (1 - semantic_weight) * norm_keyword for an
\* entry of the merged map, with norm = raw / max and 0 for a channel whose
\* maximum is 0; the weight is in tenths.
ExpectedFinalScore(entry, max_semantic, max_keyword, semantic_weight) ==
    LET ns == IF max_semantic > 0 THEN [num |-> entry.semantic_score, den |-> max_semantic]
              ELSE [num |-> 0, den |-> 1]
        nk == IF max_keyword > 0 THEN [num |-> entry.keyword_score, den |-> max_keyword]
              ELSE [num |-> 0, den |-> 1]
    IN [num |-> semantic_weight * ns.num * nk.den + (10 - semantic_weight) * nk.num * ns.den,
        den |-> 10 * ns.den * nk.den]

\* C24: the final_score of every chunk of the merged set is the weighted sum of
\* its two scores, each divided by the maximum of its channel (0 for a channel
\* whose maximum is 0); no division by zero; with semantic_weight in [0, 1] the
\* final_score is in [0, 1].
C24_FinalScoreFormula ==
    Completed("hybrid_search") =>
        LET merged == Merged
            scored == rank_combined(merged, Len(merged), out.weight)
            max_semantic == MaxScore(merged, "semantic_score")
            max_keyword == MaxScore(merged, "keyword_score")
            expected(id) == ExpectedFinalScore(EntryOf(merged, id), max_semantic,
                                               max_keyword, out.weight)
        IN /\ Len(scored) = Len(merged)
           /\ \A i \in 1..Len(scored) :
                 /\ scored[i].final_score.den > 0
                 /\ FracEq(scored[i].final_score, expected(scored[i].id))
                 /\ 0 <= scored[i].final_score.num
                 /\ scored[i].final_score.num <= scored[i].final_score.den
           /\ \A i \in 1..Len(out.results) :
                 FracEq(out.results[i].final_score, expected(out.results[i].id))

C24_Witness ==
    /\ Completed("hybrid_search")
    /\ out.weight = 7
    /\ Len(Merged) >= 2
    /\ MaxScore(Merged, "semantic_score") = 0
    /\ MaxScore(Merged, "keyword_score") = 3
    /\ \E i \in 1..Len(out.results) :
          out.results[i].final_score.num * 10 = out.results[i].final_score.den

TopK(top_k_arg) == IF top_k_arg = None THEN TOP_K_RESULTS ELSE top_k_arg

Smaller(a, b) == IF a < b THEN a ELSE b

\* The chunks a sub-search of the call can return: on both paths the store is
\* not longer than the neighbours the store query asks for.
AboveThreshold == {i \in 1..Len(kb) : kb[i].sim >= SIMILARITY_THRESHOLD}
WithQueryWord == {i \in 1..Len(kb) : KeywordScore(kb[i]) > 0}

\* C25: hybrid_search returns at most top_k chunks in the order of
\* non-increasing final_score; no chunk of the merged set that is left out has
\* a greater final_score than a returned one; each sub-search is run with
\* top_k + 3.
C25_HybridTopK ==
    Completed("hybrid_search") =>
        LET merged == Merged
            scored == rank_combined(merged, Len(merged), out.weight)
            returned == Ids(out.results)
        IN /\ Len(out.results) = Smaller(TopK(out.top_k), Len(merged))
           /\ \A i \in 1..(Len(out.results) - 1) :
                 FracLeq(out.results[i + 1].final_score, out.results[i].final_score)
           /\ \A i \in 1..Len(scored) :
                 scored[i].id \notin returned =>
                     \A j \in 1..Len(out.results) :
                         FracLeq(scored[i].final_score, out.results[j].final_score)
           /\ Len(out.semantic_results) =
                 Smaller(TopK(out.top_k) + 3, Cardinality(AboveThreshold))
           /\ Len(out.keyword_results) =
                 Smaller(TopK(out.top_k) + 3, Cardinality(WithQueryWord))

C25_Witness ==
    /\ Completed("hybrid_search")
    /\ out.top_k = None
    /\ Cardinality(AboveThreshold) > TOP_K_RESULTS + 3
    /\ Len(out.semantic_results) = TOP_K_RESULTS + 3
    /\ Len(out.keyword_results) = TOP_K_RESULTS + 3
    /\ Len(out.results) = TOP_K_RESULTS
    /\ Len(Merged) > TOP_K_RESULTS + 3
    /\ \E i \in 1..Len(kb) : i \notin Ids(out.results) /\ KeywordScore(kb[i]) = 0

\* The candidate pool of the search_by_keywords call that completed.
Pool ==
    IF use_chromadb
    THEN search_similar(kb, TopK(out.top_k) * 3, NoFilter, "none")
    ELSE FaissChunks(Engine)

\* 2 * |query tokens with a chunk keyword| + |query tokens in the content|
\* on lowercased tokens.
ClaimedScore(chunk) ==
    2 * Cardinality({q \in QueryWords : \E w \in chunk.keywords : LowerWord(w) = q})
        + Cardinality({q \in QueryWords : \E w \in chunk.content : LowerWord(w) = q})

IndexOf(pool, id) == CHOOSE i \in 1..Len(pool) : pool[i].id = id

\* Chunk x of the pool comes before chunk y: greater score, or equal score and
\* earlier in the pool.
RankedBefore(pool, x, y) ==
    \/ ClaimedScore(pool[x]) > ClaimedScore(pool[y])
    \/ ClaimedScore(pool[x]) = ClaimedScore(pool[y]) /\ x < y

\* C26: search_by_keywords returns exactly the chunks of its pool with a score
\* above 0, each with that score as keyword_score, in the order of
\* non-increasing score with ties in pool order, cut to top_k.
C26_KeywordSearchResults ==
    Completed("search_by_keywords") =>
        LET pool == Pool
            hits == {i \in 1..Len(pool) : ClaimedScore(pool[i]) > 0}
            returned == Ids(out.results)
        IN /\ Len(out.results) = Smaller(TopK(out.top_k), Cardinality(hits))
           /\ \A i \in 1..Len(out.results) :
                 /\ out.results[i].id \in {pool[k].id : k \in hits}
                 /\ out.results[i].keyword_score = ClaimedScore(out.results[i])
                 /\ out.results[i].keyword_score > 0
           /\ \A i \in 1..(Len(out.results) - 1) :
                 RankedBefore(pool, IndexOf(pool, out.results[i].id),
                              IndexOf(pool, out.results[i + 1].id))
           /\ \A k \in hits :
                 pool[k].id \notin returned =>
                     \A i \in 1..Len(out.results) :
                         RankedBefore(pool, IndexOf(pool, out.results[i].id), k)

C26_Witness ==
    /\ Completed("search_by_keywords")
    /\ use_chromadb
    /\ out.top_k = 1
    /\ Len(kb) = 2
    /\ kb[1].keywords = {"tarif"}
    /\ Len(out.results) = 1
    /\ out.results[1].keywords = {"Portage"}
    /\ out.results[1].keyword_score = 3

(***************************************************************************)
(* Claims about the chatbot (under SpecChat).                              *)
(***************************************************************************)
\* C18: process_query never raises and always returns a record with a response
\* text; when the search returned no result, the record has confidence low, no
\* source, the contact message, and the LLM was not called.
C18_ProcessQueryNeverRaises ==
    reply.op = "process_query" =>
        /\ ~reply.raised
        /\ reply.response # ""
        /\ (reply.searched = "returned" /\ reply.found = 0) =>
              /\ reply.confidence = "low"
              /\ reply.sources = <<>>
              /\ reply.response = "no_information_contact_team"
              /\ ~reply.llm_called

C18_Witness ==
    /\ reply.op = "process_query"
    /\ reply.is_initialized
    /\ reply.searched = "raised"
    /\ reply.response = "sorry_error_contact_team"
    /\ kb # <<>>

(***************************************************************************)
(* Claims about the life cycle of the chatbot (under SpecBot).             *)
(***************************************************************************)
\* An initialize() call whose connection test succeeded.
TestedOk(call) == call.engine = "ok" /\ call.test = "ok" /\ ~call.raised

\* C29: is_initialized is true only after an initialize() call whose LLM
\* connection test succeeded; a process_query call made while it is false
\* returns the not_initialized error record without a search and without an
\* LLM call, and only such a call returns that record.
C29_AnswersOnlyAfterInitialize ==
    /\ bot.is_initialized => \E k \in 1..Len(bot.inits) : TestedOk(bot.inits[k])
    /\ reply.op = "process_query" =>
          /\ ~reply.is_initialized =>
                /\ reply.response = "not_initialized"
                /\ reply.confidence = "error"
                /\ reply.searched = "no"
                /\ ~reply.llm_called
                /\ ~reply.raised
          /\ reply.is_initialized => reply.response # "not_initialized"

\* initialize() failed on the connection test, and the query asked after it on
\* a store with a chunk got the not_initialized record.
C29_Witness ==
    /\ reply.op = "process_query"
    /\ ~reply.is_initialized
    /\ reply.response = "not_initialized"
    /\ Len(bot.inits) = 1
    /\ bot.inits[1].test = "fail"
    /\ kb # <<>>

(***************************************************************************)
(* Claims about the persistent process (under SpecSession).                *)
(***************************************************************************)
\* A request with a requestId and a question.
ValidRequest(line) ==
    line.kind = "request" /\ line.requestId \in RequestIds /\ line.message = "question"

\* C30: once initialize succeeded, every non-blank line read has exactly one
\* response on the real stdout before the next line is read; the response to a
\* valid request carries its requestId; outside process_message stdout and
\* stderr are the original streams, after a call that returned and after a call
\* that raised.
C30_PersistentLoop ==
    /\ session.at \in {"read", "ended"} => Len(session.written) = session.nonblank
    /\ session.at \in {"process", "inside", "write"} =>
          Len(session.written) = session.nonblank - 1
    /\ session.at \in {"read", "process", "write", "ended"} =>
          session.stdout = "real" /\ session.stderr = "real"
    /\ (session.at = "read" /\ ValidRequest(session.line)) =>
          /\ session.written[Len(session.written)].requestId = session.line.requestId
          /\ session.written[Len(session.written)].kind \in {"result", "error"}
    /\ session.at \notin {"none", "start", "exit"} => bot.is_initialized

\* Two valid requests were answered, the second after a process_message call
\* that raised.
C30_Witness ==
    /\ session.at = "read"
    /\ Len(session.written) = 2
    /\ session.written[1] = Response("r1", "result")
    /\ session.written[2] = Response("r2", "error")
    /\ ValidRequest(session.line)

(***************************************************************************)
(* Claims about the constructor of the store adapter (under SpecOpen).     *)
(***************************************************************************)
\* C11: when opening the store fails in the constructor, exactly one recovery is
\* attempted; a recovery that completes has removed the directory (when there
\* was one), made it again, opened the client and initialized the collection,
\* in that order; a recovery that fails leaves the constructor by its
\* exception; a constructor that returns leaves a manager with a client and a
\* collection on a readable store.
C11_StoreOpenRecovery ==
    /\ ctor.recoveries <= 1
    /\ (ctor.pc \in {"returned", "raised"} /\ ctor.open_failed) => ctor.recoveries = 1
    /\ ~ctor.open_failed => ctor.recoveries = 0
    /\ (ctor.pc = "returned" /\ ctor.recoveries = 1) =>
          /\ ctor.log \in {<<"rmtree", "makedirs", "client", "collection">>,
                           <<"makedirs", "client", "collection">>}
          /\ disk = FreshDisk
    /\ (ctor.recoveries = 1 /\ ctor.fault # "none") => ctor.pc = "raised"
    /\ ctor.pc = "returned" =>
          manager.client /\ manager.collection /\ disk.exists /\ ~disk.corrupt

C11_Witness ==
    /\ ctor.pc = "returned"
    /\ ctor.recoveries = 1
    /\ ctor.log = <<"rmtree", "makedirs", "client", "collection">>
    /\ manager.collection

(***************************************************************************)
(* Claims about the chunker (under SpecChunk).                             *)
(***************************************************************************)
Content(i) == processed.chunks[i].content

\* C13: the chunker never runs with overlap >= chunk_size.
C13_OverlapBelowChunkSize ==
    processed.ran => doc.overlap < doc.chunk_size

\* C14: process_file raises or returns at least one chunk, and every chunk it
\* returns has a non-empty content.
C14_AtLeastOneNonEmptyChunk ==
    (processed.called /\ ~processed.raised) =>
        /\ Len(processed.chunks) >= 1
        /\ \A i \in 1..Len(processed.chunks) : Content(i) # <<>>

\* The number of characters of chunk i that the claims call its overlap with
\* the chunk after it: min(overlap, len(C_i)).
OverlapLen(i) == IF doc.overlap < Len(Content(i)) THEN doc.overlap ELSE Len(Content(i))

\* C15: for chunk_size > overlap >= 1, the last min(overlap, len(C_i)) characters
\* of the content of every chunk C_i are a prefix of the content of the chunk
\* after it.
C15_OverlapInvariant ==
    (processed.ran /\ doc.chunk_size > doc.overlap /\ doc.overlap >= 1) =>
        \A i \in 1..(Len(processed.chunks) - 1) :
            /\ Len(Content(i + 1)) >= OverlapLen(i)
            /\ SubSeq(Content(i), Len(Content(i)) - OverlapLen(i) + 1, Len(Content(i)))
                  = SubSeq(Content(i + 1), 1, OverlapLen(i))

\* The chunks in chunk_index order, each after the first without its overlap
\* prefix, concatenated.
RECURSIVE Reconstruct(_)
Reconstruct(n) ==
    IF n = 0
    THEN <<>>
    ELSE IF n = 1
         THEN Content(1)
         ELSE Reconstruct(n - 1)
                  \o SubSeq(Content(n), OverlapLen(n - 1) + 1, Len(Content(n)))

\* C16: the chunks without their overlap prefixes, concatenated in chunk_index
\* order, are the normalized text.
C16_ChunkCoverage ==
    (processed.ran /\ doc.chunk_size > doc.overlap) =>
        Reconstruct(Len(processed.chunks)) = processed.text

\* C22: when every sentence of the text has at most chunk_size - overlap - 1
\* characters, every chunk _create_chunks emits has at most chunk_size
\* characters.
C22_ChunkSizeBound ==
    processed.ran =>
        ((\A k \in 1..Len(split_sentences(processed.text)) :
             Len(split_sentences(processed.text)[k]) <= doc.chunk_size - doc.overlap - 1)
         => \A i \in 1..Len(processed.chunks) : Len(Content(i)) <= doc.chunk_size)

(***************************************************************************)
(* Claims about the loop of the chunker (under SpecLoop).                  *)
(***************************************************************************)
\* The buffer with the sentence of this turn appended.
Appended == loop.current_chunk \o <<Blank>> \o loop.sentences[loop.i]

\* C27: in a turn of the loop the buffer is emitted as a chunk exactly when it
\* is non-empty and would be longer than chunk_size with the sentence appended;
\* otherwise the sentence is appended and no chunk is emitted; no emitted chunk
\* is empty.
C27_CutoverRule ==
    [][ loop.at = "loop" =>
          /\ IF loop.current_chunk # <<>> /\ Len(Appended) > doc.chunk_size
             THEN /\ Len(loop'.chunks) = Len(loop.chunks) + 1
                  /\ loop'.chunks[Len(loop'.chunks)].content = Strip(loop.current_chunk)
                  /\ SubSeq(loop'.chunks, 1, Len(loop.chunks)) = loop.chunks
             ELSE /\ loop'.chunks = loop.chunks
                  /\ loop'.current_chunk =
                        IF loop.current_chunk = <<>>
                        THEN loop.sentences[loop.i]
                        ELSE Appended
          /\ \A k \in 1..Len(loop'.chunks) : loop'.chunks[k].content # <<>> ]_vars

\* The first sentence was longer than chunk_size and is the buffer now, with no
\* chunk emitted; a later turn has cut a chunk.
C27_Witness ==
    /\ loop.at = "done"
    /\ Len(loop.sentences) = 2
    /\ Len(loop.sentences[1]) > doc.chunk_size
    /\ Len(loop.chunks) = 2
    /\ loop.chunks[1].content = loop.sentences[1]

(***************************************************************************)
(* Claims about classify_intent (under SpecIntent).                        *)
(***************************************************************************)
IntentOrder == <<"pricing", "comparison", "contact", "definition", "process", "requirements">>

\* The intents that have a trigger phrase occurring in the lowercased query.
Triggered ==
    {label \in {IntentOrder[i] : i \in 1..Len(IntentOrder)} :
        \E i \in 1..Len(intent_patterns) :
            /\ intent_patterns[i].intent = label
            /\ Matches(intent_patterns, i, lower(query))}

\* C19: classify_intent returns the first intent, in the order pricing,
\* comparison, contact, definition, process, requirements, that has a trigger
\* phrase occurring as a substring of the lowercased query, and general when no
\* trigger phrase occurs.
C19_FirstMatchingIntent ==
    intent # NotClassified =>
        IF Triggered = {}
        THEN intent = "general"
        ELSE /\ intent \in Triggered
             /\ \A i \in 1..Len(IntentOrder), j \in 1..Len(IntentOrder) :
                   (IntentOrder[i] = intent /\ IntentOrder[j] \in Triggered) => i <= j

C19_Witness ==
    /\ intent = "pricing"
    /\ "process" \in Triggered
    /\ query # lower(query)
    /\ IsSubstring(<<"c", "o", "m", "m", "e", "n", "t">>, SubSeq(query, 1, 7))
=============================================================================
